---- MODULE Spec2Model ----
(***************************************************************************)
(* A model of plot.py: a plotting helper on top of a Tk canvas.            *)
(*                                                                         *)
(* The Plot object's attributes are the variables.  Every method is an     *)
(* operator from a record of the attributes (and of the Tk canvas it       *)
(* drives) to the record after the call, so that a handler that calls      *)
(* another (double_click_handler -> zoom_plus -> draw) is one action.      *)
(* Python floats are modelled as exact rationals <<numerator, denominator>> *)
(***************************************************************************)
EXTENDS Integers, Sequences, FiniteSets, TLC

\* ------------------------------------------------------------- bounds ----
\* events dispatched by one mainloop run before the model stops exploring,
\* for each specification below
MaxZoomEvents == 3
MaxClickEvents == 5
MaxDrawEvents == 1
MaxAnimEvents == 3
MaxDragEvents == 4
\* shapes the caller adds before display()
MaxShapes == 2
\* length of the longest frame sequence given to animate()
MaxFrames == 3
\* calls of animate()
MaxAnimate == 2
\* longest tick or label array given to graph_axes()
MaxTicks == 3

\* ------------------------------------------------ exact rationals --------
Abs(n) == IF n < 0 THEN -n ELSE n

RECURSIVE GCD(_, _)
GCD(a, b) == IF b = 0 THEN a ELSE GCD(b, a % b)

\* the rational n/d in lowest terms with a positive denominator (d # 0)
Lowest(n, d, g) ==
  IF d < 0 THEN <<(-n) \div g, (-d) \div g>> ELSE <<n \div g, d \div g>>
Norm(n, d) == Lowest(n, d, GCD(Abs(n), Abs(d)))

R(n) == <<n, 1>>
RAdd(a, b) == Norm(a[1] * b[2] + b[1] * a[2], a[2] * b[2])
RSub(a, b) == Norm(a[1] * b[2] - b[1] * a[2], a[2] * b[2])
RMul(a, b) == Norm(a[1] * b[1], a[2] * b[2])
\* a / b; Python raises ZeroDivisionError when b = 0 (callers test RIsZero)
RDiv(a, b) == Norm(a[1] * b[2], a[2] * b[1])
RIsZero(a) == a[1] = 0
RLess(a, b) == a[1] * b[2] < b[1] * a[2]
RPos(a) == a[1] > 0

\* ------------------------------------------------------- Shapes ----------
\* A shape is a record: kind, pts (the coordinate sequence of a Line or
\* Polygon; the centre of a Circle or Arc; the point of a Mark or Label),
\* radius (the size of a Mark), squish and text.  Coordinates are rationals.
\* The style arguments (tkargs) do not bear on geometry and are left out.
Line(points) ==
  [kind |-> "Line", pts |-> points, radius |-> R(0), squish |-> R(1), text |-> ""]
Polygon(points) ==
  [kind |-> "Polygon", pts |-> points, radius |-> R(0), squish |-> R(1), text |-> ""]
Circle(centre, rad, sq) ==
  [kind |-> "Circle", pts |-> centre, radius |-> rad, squish |-> sq, text |-> ""]
Mark(point, size) ==
  [kind |-> "Mark", pts |-> point, radius |-> size, squish |-> R(1), text |-> ""]
Arc(centre, rad, sq) ==
  [kind |-> "Arc", pts |-> centre, radius |-> rad, squish |-> sq, text |-> ""]
Label(point, txt) ==
  [kind |-> "Label", pts |-> point, radius |-> R(0), squish |-> R(1), text |-> txt]

\* the affine map of every Shape.draw: x0 + (x + xoffset) * xscale
DevX(x, x0, xs, xo) == RAdd(x0, RMul(RAdd(x, xo), xs))
\* ... and y0 - (y + yoffset) * yscale
DevY(y, y0, ys, yo) == RSub(y0, RMul(RAdd(y, yo), ys))

\* the loop of Line.draw and Polygon.draw over range(0, len(pts), 2):
\* (x, y) = pts[i:i+2] raises ValueError when the slice holds one value
RECURSIVE MapPairs(_, _, _, _, _, _, _, _)
MapPairs(pts, i, acc, x0, y0, xs, ys, off) ==
  IF i > Len(pts) THEN [err |-> "none", pts |-> acc]
  ELSE IF i = Len(pts) THEN [err |-> "ValueError", pts |-> acc]
  ELSE MapPairs(pts, i + 2,
                acc \o <<DevX(pts[i], x0, xs, off[1]), DevY(pts[i + 1], y0, ys, off[2])>>,
                x0, y0, xs, ys, off)

\* each draw returns [err, item]: the canvas item it creates, if it does
\* (prim is the canvas.create_* call made, pts its coordinates)
Item(prim, devpts) == [prim |-> prim, pts |-> devpts]
NoItem == Item("none", <<>>)

\* canvas.create_line / create_polygon on the mapped points m, if the loop
\* has not raised
Create(prim, m) ==
  IF m.err = "none" THEN [err |-> "none", item |-> Item(prim, m.pts)]
  ELSE [err |-> m.err, item |-> NoItem]

Line_draw(sh, x0, y0, xs, ys, xo, yo) ==
  Create("line", MapPairs(sh.pts, 1, <<>>, x0, y0, xs, ys, <<xo, yo>>))

Polygon_draw(sh, x0, y0, xs, ys, xo, yo) ==
  Create("polygon", MapPairs(sh.pts, 1, <<>>, x0, y0, xs, ys, <<xo, yo>>))

\* the bounding box (x1, y1, x2, y2) of Circle.draw and Arc.draw, mapped
BoxPts(sh, x0, y0, xs, ys, xo, yo) ==
  LET x1 == RSub(sh.pts[1], sh.radius)
      y1 == RSub(sh.pts[2], RMul(sh.radius, sh.squish))
      x2 == RAdd(sh.pts[1], sh.radius)
      y2 == RAdd(sh.pts[2], RMul(sh.radius, sh.squish))
  IN  <<DevX(x1, x0, xs, xo), DevY(y1, y0, ys, yo),
        DevX(x2, x0, xs, xo), DevY(y2, y0, ys, yo)>>

Circle_draw(sh, x0, y0, xs, ys, xo, yo) ==
  [err |-> "none", item |-> Item("oval", BoxPts(sh, x0, y0, xs, ys, xo, yo))]

Arc_draw(sh, x0, y0, xs, ys, xo, yo) ==
  [err |-> "none", item |-> Item("arc", BoxPts(sh, x0, y0, xs, ys, xo, yo))]

\* canvas.create_oval(x - size, y - size, x + size, y + size) of Mark.draw
MarkOval(x, y, size) ==
  [err |-> "none",
   item |-> Item("oval", <<RSub(x, size), RSub(y, size),
                           RAdd(x, size), RAdd(y, size)>>)]

\* Mark.draw with the y axis not flipped (y0 + ... for y0 - ...)
Mark_draw_unflipped(sh, x0, y0, xs, ys, xo, yo) ==
  MarkOval(DevX(sh.pts[1], x0, xs, xo),
           RAdd(y0, RMul(RAdd(sh.pts[2], yo), ys)), sh.radius)

\* a Mark is size pixels around the mapped point
Mark_draw(sh, x0, y0, xs, ys, xo, yo) ==
  MarkOval(DevX(sh.pts[1], x0, xs, xo), DevY(sh.pts[2], y0, ys, yo), sh.radius)

Label_draw(sh, x0, y0, xs, ys, xo, yo) ==
  [err |-> "none",
   item |-> Item("text", <<DevX(sh.pts[1], x0, xs, xo), DevY(sh.pts[2], y0, ys, yo)>>)]

\* i.draw(...): dispatch on the shape's class
Shape_draw(sh, x0, y0, xs, ys, xo, yo) ==
  CASE sh.kind = "Line" -> Line_draw(sh, x0, y0, xs, ys, xo, yo)
    [] sh.kind = "Polygon" -> Polygon_draw(sh, x0, y0, xs, ys, xo, yo)
    [] sh.kind = "Circle" -> Circle_draw(sh, x0, y0, xs, ys, xo, yo)
    [] sh.kind = "Arc" -> Arc_draw(sh, x0, y0, xs, ys, xo, yo)
    [] sh.kind = "Mark" -> Mark_draw(sh, x0, y0, xs, ys, xo, yo)
    [] OTHER -> Label_draw(sh, x0, y0, xs, ys, xo, yo)

\* ------------------------------------------------------- Plot ------------
\* self.border and self.pan, set once in __init__
border == 20
pan == 4

\* frame_iter = None
NoIter == [set |-> FALSE, frames |-> <<>>, pos |-> 0]

\* no graph_axes() call yet
NoArgs ==
  [xaxis |-> <<>>, yaxis |-> <<>>, xlabels |-> <<>>, ylabels |-> <<>>,
   xtext |-> "", ytext |-> "", tick |-> R(0), xtick |-> R(0), ytick |-> R(0)]

\* The caller's per-frame callbacks.  "marker" adds a Mark at (t, 0) and
\* returns None; "pauser" adds a Line from (0, 0) to (t, t) and returns
\* True on even frame values, asking for a pause.
FnShapes(fn, t) ==
  IF fn = "marker" THEN <<Mark(<<R(t), R(0)>>, R(3))>>
  ELSE <<Line(<<R(0), R(0), R(t), R(t)>>)>>
FnReturn(fn, t) == fn = "pauser" /\ t % 2 = 0

\* Plot.add: append to the shape list (added: the shapes handed to add()
\* since the last clear(), kept for the record)
add(p, x) ==
  [p EXCEPT !.objects = Append(@, x), !.added = Append(@, x)]

\* Plot.clear: del self.objects[:]
clear(p) ==
  [p EXCEPT !.objects = <<>>, !.added = <<>>]

\* Plot.animate (calls: the callback calls made for the animation attached;
\* nanim: the animate() calls made; both kept for the record)
animate(p, frames, fn, delay) ==
  [p EXCEPT !.frame_iter = [set |-> TRUE, frames |-> frames, pos |-> 0],
            !.frame_fn = fn,
            !.frame_delay = delay,
            !.calls = <<>>,
            !.nanim = @ + 1]

\* the loop of Plot.draw over self.objects; it stops at the first shape
\* whose draw raises
RECURSIVE DrawObjects(_, _, _, _)
\* one turn of the loop: d is what the draw of shape i returned
DrawObject(p, i, acc, y0, d) ==
  IF d.err # "none" THEN [err |-> d.err, canvas |-> acc]
  ELSE DrawObjects(p, i + 1,
         Append(acc, [prim |-> d.item.prim, pts |-> d.item.pts,
                      src |-> p.objects[i]]),
         y0)

DrawObjects(p, i, acc, y0) ==
  IF i > Len(p.objects) THEN [err |-> "none", canvas |-> acc]
  ELSE DrawObject(p, i, acc, y0,
                  Shape_draw(p.objects[i], R(border), y0,
                             p.xscale, p.yscale, p.xoffset, p.yoffset))

\* self.width, self.height = canvas.winfo_width(), canvas.winfo_height()
TakeSize(p) == [p EXCEPT !.width = p.winfo[1], !.height = p.winfo[2]]

\* canvas.delete('all') and the loop over self.objects, whose outcome is d
\* (drew: this call has redrawn, kept for the record)
Redraw(q, d) == [q EXCEPT !.canvas = d.canvas, !.err = d.err, !.drew = TRUE]

\* the body of Plot.draw once the canvas's size is taken
DrawAll(q) == Redraw(q, DrawObjects(q, 1, <<>>, R(q.height - border)))

\* Plot.draw: take the canvas's size, delete every item, draw every shape
draw(p) == DrawAll(TakeSize(p))

\* Plot.next_frame and Plot.play_pause_handler call each other
RECURSIVE next_frame(_, _)
RECURSIVE play_pause_handler(_)

\* next(i) on the frame iterator: StopIteration once every frame is taken
Exhausted(i) == i.pos >= Len(i.frames)

\* Plot.next_frame once next(i) has returned a frame: clear, callback,
\* draw, and the timer for the following frame when playing
\* t = next(i)
TakeFrame(p) == [p EXCEPT !.frame_iter.pos = @ + 1]

\* the call self.frame_fn(t): the callback adds its shapes
CallFrameFn(p, t, fs) ==
  [p EXCEPT !.objects = @ \o fs, !.added = @ \o fs,
            !.calls = Append(@, [fn |-> p.frame_fn, t |-> t])]

\* the callback's return value not looked at
FrameFn_return_ignored(p, t, play) ==
  CallFrameFn(p, t, FnShapes(p.frame_fn, t))

\* if self.frame_fn(t) and play: self.play_pause_handler()
FrameFn(p, t, play) ==
  IF FnReturn(p.frame_fn, t) /\ play # 0
  THEN play_pause_handler(CallFrameFn(p, t, FnShapes(p.frame_fn, t)))
  ELSE CallFrameFn(p, t, FnShapes(p.frame_fn, t))

\* self.draw(), reached unless the lines before it raised
FrameDraw(p) == IF p.err # "none" THEN p ELSE draw(p)

\* if play and self.playing: self.canvas.after(self.frame_delay, ...)
FrameAfter(p, play) ==
  IF p.err # "none" THEN p
  ELSE IF play # 0 /\ p.playing # 0
  THEN [p EXCEPT !.after = Append(@, [ms |-> p.frame_delay, anim |-> p.nanim])]
  ELSE p

NextFrameStep(p, play) ==
  FrameAfter(
    FrameDraw(
      FrameFn(clear(TakeFrame(p)),
              p.frame_iter.frames[p.frame_iter.pos + 1], play)),
    play)

\* next_frame clearing the shape list before it asks for the next frame
next_frame_clears_first(p, play) ==
  IF ~p.frame_iter.set THEN p
  ELSE IF Exhausted(p.frame_iter) THEN clear(p)
  ELSE NextFrameStep(p, play)

next_frame(p, play) ==
  IF ~p.frame_iter.set THEN p
  ELSE IF Exhausted(p.frame_iter) THEN p
  ELSE NextFrameStep(p, play)

play_pause_handler(p) ==
  IF p.playing = 1 THEN [p EXCEPT !.playing = 0]
  ELSE next_frame([p EXCEPT !.playing = 1], 1)

\* frame_handler passing play=1
frame_handler_playing(p) == next_frame(p, 1)

\* Plot.frame_handler
frame_handler(p) == next_frame(p, 0)

\* Plot.configure_handler
configure_handler(p) ==
  draw(IF p.playing = 1 THEN play_pause_handler(p) ELSE p)

\* Plot.click_handler
click_handler(p, x, y) ==
  [p EXCEPT !.move_x = x, !.move_y = y, !.delta_x = 0, !.delta_y = 0,
            !.has_click = TRUE]

\* canvas.move('move', dx, dy): every item carries the tag 'move'
MoveItems(items, dx, dy) ==
  [k \in 1..Len(items) |->
     [items[k] EXCEPT !.pts =
        [j \in 1..Len(@) |-> IF j % 2 = 1 THEN RAdd(@[j], R(dx))
                                          ELSE RAdd(@[j], R(dy))]]]

\* Plot.drag_handler
\* the body of drag_handler once a running animation is paused
Drag(q, x, y) ==
  [q EXCEPT !.delta_x = @ + (x - q.move_x), !.delta_y = @ + (y - q.move_y),
            !.canvas = MoveItems(@, x - q.move_x, y - q.move_y),
            !.move_x = x, !.move_y = y]

drag_handler(p, x, y) ==
  Drag(IF p.playing = 1 THEN play_pause_handler(p) ELSE p, x, y)

\* release_handler adding the y delta to yoffset, as it does the x delta
release_handler_y_added(p) ==
  draw([p EXCEPT !.xoffset = RAdd(@, RDiv(R(p.delta_x), p.xscale)),
                 !.yoffset = RAdd(@, RDiv(R(p.delta_y), p.yscale))])

\* Plot.release_handler
release_handler(p) ==
  draw([p EXCEPT !.xoffset = RAdd(@, RDiv(R(p.delta_x), p.xscale)),
                 !.yoffset = RSub(@, RDiv(R(p.delta_y), p.yscale))])

\* zoom_minus halving the scales before it moves the offsets
zoom_minus_halved_first(p) ==
  LET q == [p EXCEPT !.xscale = RDiv(@, R(2)), !.yscale = RDiv(@, R(2))]
  IN  draw([q EXCEPT
        !.xoffset = RAdd(@, RDiv(R(p.width - 2 * border), RMul(R(2), q.xscale))),
        !.yoffset = RAdd(@, RDiv(R(p.height - 2 * border), RMul(R(2), q.yscale)))])

\* Plot.zoom_minus
zoom_minus(p) ==
  draw([p EXCEPT
    !.xoffset = RAdd(@, RDiv(R(p.width - 2 * border), RMul(R(2), p.xscale))),
    !.yoffset = RAdd(@, RDiv(R(p.height - 2 * border), RMul(R(2), p.yscale))),
    !.xscale = RDiv(@, R(2)),
    !.yscale = RDiv(@, R(2))])

\* zoom_plus moving the offsets by the scales before they are doubled
zoom_plus_old_scale(p) ==
  draw([p EXCEPT
    !.xoffset = RSub(@, RDiv(R(p.width - 2 * border), RMul(R(2), p.xscale))),
    !.yoffset = RSub(@, RDiv(R(p.height - 2 * border), RMul(R(2), p.yscale))),
    !.xscale = RMul(@, R(2)),
    !.yscale = RMul(@, R(2))])

\* Plot.zoom_plus: the offsets are computed from the doubled scales
zoom_plus(p) ==
  LET q == [p EXCEPT !.xscale = RMul(@, R(2)), !.yscale = RMul(@, R(2))]
  IN  draw([q EXCEPT
        !.xoffset = RSub(@, RDiv(R(p.width - 2 * border), RMul(R(2), q.xscale))),
        !.yoffset = RSub(@, RDiv(R(p.height - 2 * border), RMul(R(2), q.yscale)))])

\* Plot.zoom_x_minus
zoom_x_minus(p) ==
  draw([p EXCEPT
    !.xoffset = RAdd(@, RDiv(R(p.width - 2 * border), RMul(R(2), p.xscale))),
    !.xscale = RDiv(@, R(2))])

\* Plot.zoom_x_plus
zoom_x_plus(p) ==
  LET q == [p EXCEPT !.xscale = RMul(@, R(2))]
  IN  draw([q EXCEPT
        !.xoffset = RSub(@, RDiv(R(p.width - 2 * border), RMul(R(2), q.xscale)))])

\* zoom_y_minus moving xoffset by the width, for yoffset by the height
zoom_y_minus_moves_x(p) ==
  draw([p EXCEPT
    !.xoffset = RAdd(@, RDiv(R(p.width - 2 * border), RMul(R(2), p.yscale))),
    !.yscale = RDiv(@, R(2))])

\* Plot.zoom_y_minus
zoom_y_minus(p) ==
  draw([p EXCEPT
    !.yoffset = RAdd(@, RDiv(R(p.height - 2 * border), RMul(R(2), p.yscale))),
    !.yscale = RDiv(@, R(2))])

\* Plot.zoom_y_plus
zoom_y_plus(p) ==
  LET q == [p EXCEPT !.yscale = RMul(@, R(2))]
  IN  draw([q EXCEPT
        !.yoffset = RSub(@, RDiv(R(p.height - 2 * border), RMul(R(2), q.yscale)))])

\* Plot.pan_up_handler, pan_down_handler, pan_right_handler, pan_left_handler
pan_up_handler(p) == draw([p EXCEPT !.yoffset = RAdd(@, R(pan))])
pan_down_handler(p) == draw([p EXCEPT !.yoffset = RSub(@, R(pan))])
pan_right_handler(p) == draw([p EXCEPT !.xoffset = RAdd(@, R(pan))])
pan_left_handler(p) == draw([p EXCEPT !.xoffset = RSub(@, R(pan))])

\* if button == 1: zoom_plus() elif button == 2: zoom_minus() else: draw()
ZoomOrDraw(q, button) ==
  IF button = 1 THEN zoom_plus(q)
  ELSE IF button = 2 THEN zoom_minus(q)
  ELSE draw(q)

\* double_click_handler with dy taken the other way round
double_click_handler_dy_negated(p, x, y, button) ==
  LET dx == RSub(RMul(<<1, 2>>, R(p.width)), R(x))
      dy == RSub(RMul(<<1, 2>>, R(p.height)), R(y))
  IN  ZoomOrDraw([p EXCEPT !.xoffset = RAdd(@, RDiv(dx, p.xscale)),
                           !.yoffset = RAdd(@, RDiv(dy, p.yscale))], button)

\* Plot.double_click_handler: centre at (x, y), then zoom by the button
double_click_handler(p, x, y, button) ==
  LET dx == RSub(RMul(<<1, 2>>, R(p.width)), R(x))
      dy == RSub(R(y), RMul(<<1, 2>>, R(p.height)))
  IN  ZoomOrDraw([p EXCEPT !.xoffset = RAdd(@, RDiv(dx, p.xscale)),
                           !.yoffset = RAdd(@, RDiv(dy, p.yscale))], button)

\* double_click2_handler passing button 1
double_click2_handler_button1(p, x, y) == double_click_handler(p, x, y, 1)

\* Plot.double_click2_handler
double_click2_handler(p, x, y) == double_click_handler(p, x, y, 2)

\* Plot.line and Plot.label: the shape wrappers graph_axes uses
line(p, points) == add(p, Line(points))
label(p, point, txt) == add(p, Label(point, txt))

\* for i in axis: self.line(...)   (vertical: the x-axis grid lines)
RECURSIVE GridLines(_, _, _, _, _, _)
GridLines(p, axis, k, lo, hi, vertical) ==
  IF k > Len(axis) THEN p
  ELSE GridLines(
         line(p, IF vertical THEN <<axis[k], lo, axis[k], hi>>
                             ELSE <<lo, axis[k], hi, axis[k]>>),
         axis, k + 1, lo, hi, vertical)

\* for (i, t) in enumerate(labels): x = (max - min) * i / n; self.label(...)
\* (i counts from 0; fixed is the other coordinate of every label)
RECURSIVE AxisLabels(_, _, _, _, _, _, _)
AxisLabels(p, labels, k, lo, hi, fixed, isx) ==
  IF k > Len(labels) THEN p
  ELSE IF Len(labels) = 1 THEN [p EXCEPT !.err = "ZeroDivisionError"]
  ELSE LET d == RDiv(RMul(RSub(hi, lo), R(k - 1)), R(Len(labels) - 1))
       IN  AxisLabels(
             label(p, IF isx THEN <<RAdd(lo, d), fixed>> ELSE <<fixed, RAdd(lo, d)>>,
                   labels[k]),
             labels, k + 1, lo, hi, fixed, isx)

\* xtick or tick
Or(a, b) == IF RIsZero(a) THEN b ELSE a

\* x-axis grid lines: xt = (xaxis[1] - xaxis[0]) * (xtick or tick), the loop
XGridLines(p, a) ==
  IF Len(a.xaxis) < 2 THEN [p EXCEPT !.err = "IndexError"]
  ELSE GridLines(p, a.xaxis, 1,
                 RSub(a.yaxis[1],
                      RMul(RSub(a.xaxis[2], a.xaxis[1]), Or(a.xtick, a.tick))),
                 a.yaxis[Len(a.yaxis)], TRUE)

\* y-axis grid lines
YGridLines(p, a) ==
  IF p.err # "none" THEN p
  ELSE IF Len(a.yaxis) < 2 THEN [p EXCEPT !.err = "IndexError"]
  ELSE GridLines(p, a.yaxis, 1,
                 RSub(a.xaxis[1],
                      RMul(RSub(a.yaxis[2], a.yaxis[1]), Or(a.ytick, a.tick))),
                 a.xaxis[Len(a.xaxis)], FALSE)

\* x-axis labels
XAxisLabels(p, a) ==
  IF p.err # "none" \/ Len(a.xlabels) = 0 THEN p
  ELSE AxisLabels(p, a.xlabels, 1, a.xaxis[1], a.xaxis[Len(a.xaxis)],
                  RSub(a.yaxis[1], RDiv(R(10), p.yscale)), TRUE)

\* y-axis labels
YAxisLabels(p, a) ==
  IF p.err # "none" \/ Len(a.ylabels) = 0 THEN p
  ELSE AxisLabels(p, a.ylabels, 1, a.yaxis[1], a.yaxis[Len(a.yaxis)],
                  RSub(a.xaxis[1], RDiv(R(10), p.xscale)), FALSE)

\* x-axis text
XText(p, a, tk86) ==
  IF p.err # "none" \/ a.xtext = "" \/ ~tk86 THEN p
  ELSE label(p, <<a.xaxis[1], RSub(a.yaxis[1], RDiv(R(50), p.yscale))>>, a.xtext)

\* y-axis text
YText(p, a, tk86) ==
  IF p.err # "none" \/ a.ytext = "" \/ ~tk86 THEN p
  ELSE label(p, <<RSub(a.xaxis[1], RDiv(R(50), p.xscale)), a.yaxis[1]>>, a.ytext)

\* Plot.graph_axes.  None is modelled by the empty sequence (labels), the
\* empty string (text) and 0 (xtick, ytick), which Python tests alike.
\* a is the record of the arguments; tk86 is not(Tk.TkVersion < 8.6).
graph_axes(p, a, tk86) ==
  IF Len(a.xaxis) = 0 \/ Len(a.yaxis) = 0 THEN [p EXCEPT !.err = "IndexError"]
  ELSE YText(XText(YAxisLabels(XAxisLabels(YGridLines(XGridLines(p, a), a),
                                           a), a), a, tk86), a, tk86)

\* ------------------------------------------------------- state -----------
VARIABLES
  \* the attributes of the Plot object
  width, height, objects, xscale, yscale, xoffset, yoffset,
  frame_iter, frame_fn, frame_delay, playing,
  has_click,                    \* click_handler has set the four below
  move_x, move_y, delta_x, delta_y,
  \* the Tk side: the canvas's items, its size (winfo_width, winfo_height),
  \* the pending canvas.after callbacks, not(Tk.TkVersion < 8.6)
  canvas, winfo, after, tk86,
  \* the exception the last call raised ("none" if it returned)
  err,
  \* the record: callback calls made since the last animate(), shapes handed
  \* to add() since the last clear(), animate() calls made, whether the last call redrew, the
  \* arguments of the last graph_axes() call
  calls, added, nanim, drew, gargs,
  \* where the program is: "caller" (the script is running), "unmapped"
  \* (display() has entered the mainloop, the window is not mapped yet),
  \* "mainloop"; whether button 1 is held; whether a press of button 1 now
  \* would be the second of a double click
  phase, button1, armed,
  \* history: the last two calls made and the state before each of them
  last, pre, last2, pre2,
  \* events dispatched so far
  nev

plotvars == <<width, height, objects, xscale, yscale, xoffset, yoffset,
              frame_iter, frame_fn, frame_delay, playing,
              has_click, move_x, move_y, delta_x, delta_y,
              canvas, winfo, after, err, calls, added, nanim, drew>>
vars == <<plotvars, tk86, gargs, phase, button1, armed, last, pre, last2, pre2,
          nev>>

\* the Plot object and its canvas as one record, for the method operators
Self ==
  [width |-> width, height |-> height, objects |-> objects,
   xscale |-> xscale, yscale |-> yscale, xoffset |-> xoffset, yoffset |-> yoffset,
   frame_iter |-> frame_iter, frame_fn |-> frame_fn, frame_delay |-> frame_delay,
   playing |-> playing, has_click |-> has_click,
   move_x |-> move_x, move_y |-> move_y, delta_x |-> delta_x, delta_y |-> delta_y,
   canvas |-> canvas, winfo |-> winfo, after |-> after, err |-> err,
   calls |-> calls, added |-> added, nanim |-> nanim, drew |-> drew]

\* the state after a call is the record the method operator returns
Commit(q) ==
  /\ width' = q.width /\ height' = q.height /\ objects' = q.objects
  /\ xscale' = q.xscale /\ yscale' = q.yscale
  /\ xoffset' = q.xoffset /\ yoffset' = q.yoffset
  /\ frame_iter' = q.frame_iter /\ frame_fn' = q.frame_fn
  /\ frame_delay' = q.frame_delay /\ playing' = q.playing
  /\ has_click' = q.has_click
  /\ move_x' = q.move_x /\ move_y' = q.move_y
  /\ delta_x' = q.delta_x /\ delta_y' = q.delta_y
  /\ canvas' = q.canvas /\ winfo' = q.winfo /\ after' = q.after
  /\ err' = q.err /\ calls' = q.calls /\ added' = q.added /\ nanim' = q.nanim
  /\ drew' = q.drew

\* what the history keeps of a state
Snap(p) ==
  [xscale |-> p.xscale, yscale |-> p.yscale,
   xoffset |-> p.xoffset, yoffset |-> p.yoffset,
   width |-> p.width, height |-> p.height,
   playing |-> p.playing, frame_iter |-> p.frame_iter, frame_fn |-> p.frame_fn,
   ncalls |-> Len(p.calls), after |-> p.after,
   objects |-> p.objects, nadded |-> Len(p.added), canvas |-> p.canvas]

Call(op, x, y) == [op |-> op, x |-> x, y |-> y]

Record(op, x, y) ==
  /\ last' = Call(op, x, y)
  /\ pre' = Snap(Self)
  /\ last2' = last
  /\ pre2' = pre

\* ------------------------------------------------------- inputs ----------
\* window sizes: the constructor's width and height, and the sizes the
\* window manager gives the canvas
Sizes == {<<600, 600>>, <<401, 300>>}
\* the constructor's xscale and yscale (never 0), xoffset and yoffset
InitScales == {<<R(1), R(1)>>, <<<<3, 2>>, R(2)>>, <<R(2), R(-1)>>}
InitOffsets == {<<R(0), R(0)>>, <<R(5), <<-7, 2>>>>}
\* pointer positions of the events
Points == {<<300, 300>>, <<100, 450>>}

\* Plot.__init__
Init ==
  /\ \E sz \in Sizes : width = sz[1] /\ height = sz[2] /\ winfo = sz
  /\ objects = <<>>
  /\ \E sc \in InitScales : xscale = sc[1] /\ yscale = sc[2]
  /\ \E of \in InitOffsets : xoffset = of[1] /\ yoffset = of[2]
  /\ frame_iter = NoIter /\ frame_fn = "None" /\ frame_delay = 0
  /\ playing = 0
  /\ has_click = FALSE
  /\ move_x = 0 /\ move_y = 0 /\ delta_x = 0 /\ delta_y = 0
  /\ canvas = <<>> /\ after = <<>>
  /\ tk86 \in BOOLEAN
  /\ err = "none"
  /\ calls = <<>> /\ added = <<>> /\ nanim = 0 /\ drew = FALSE
  /\ gargs = NoArgs
  /\ phase = "caller" /\ button1 = FALSE /\ armed = FALSE
  /\ last = Call("init", 0, 0) /\ last2 = Call("init", 0, 0)
  /\ pre = Snap(Self) /\ pre2 = Snap(Self)
  /\ nev = 0

\* ------------------------------------------------------- actions ---------
\* a call the script makes before display() or after it returns; an
\* exception it raises ends the script
Script(op, x, y, q) ==
  /\ phase = "caller"
  /\ Commit(q)
  /\ Record(op, x, y)
  /\ phase' = (IF q.err = "none" THEN "caller" ELSE "exited")
  /\ UNCHANGED <<tk86, button1, armed, nev>>

\* an event the mainloop dispatches to a handler; Tk reports an exception
\* the handler raises and goes on
Event(op, x, y, q) ==
  /\ phase = "mainloop"
  /\ Commit(q)
  /\ Record(op, x, y)
  /\ nev' = nev + 1
  /\ UNCHANGED <<tk86, gargs, phase>>

\* Self at the start of a call: nothing raised, nothing redrawn yet
S0 == [Self EXCEPT !.err = "none", !.drew = FALSE]

\* the shapes the script adds: one of each class, and a Line whose
\* coordinate sequence has odd length
ShapeInputs ==
  { Line(<<R(0), R(0), R(10), R(5)>>),
    Line(<<R(0), R(0), R(10)>>),
    Polygon(<<R(0), R(0), R(4), R(0), R(4), R(3)>>),
    Circle(<<R(2), R(3)>>, R(5), <<1, 2>>),
    Arc(<<R(-1), R(1)>>, R(2), R(1)),
    Mark(<<R(1), R(-2)>>, R(3)),
    Label(<<R(-2), R(7)>>, "a") }

CallAdd ==
  \E x \in ShapeInputs :
    /\ Len(objects) < MaxShapes
    /\ Script("add", 0, 0, add(S0, x))
    /\ UNCHANGED gargs

CallClear ==
  /\ Script("clear", 0, 0, clear(S0))
  /\ UNCHANGED gargs

\* the frame sequences base+1 .. base+k
Frames(base, k) == [i \in 1..k |-> base + i]
\* the animations the script attaches: <<frames, fn, delay>>
AnimInputs ==
  { <<Frames(0, MaxFrames), "marker", 50>>,
    <<Frames(0, MaxFrames), "pauser", 50>>,
    <<Frames(10, 2), "pauser", 20>>,
    <<Frames(1, MaxFrames + 1), "pauser", 50>>,
    <<Frames(0, 0), "marker", 20>> }

CallAnimate ==
  \E a \in AnimInputs :
    /\ nanim < MaxAnimate
    /\ Script("animate", 0, 0, animate(S0, a[1], a[2], a[3]))
    /\ UNCHANGED gargs

\* the tick arrays 0, step, 2 step, ... of length k; k labels of an axis
Ticks(k, step) == [i \in 1..k |-> R((i - 1) * step)]
XLabels(k) == [i \in 1..k |-> "tx"]
YLabels(k) == [i \in 1..k |-> "ty"]
\* the arguments of graph_axes; tick is its default 0.2, and xtick is
\* given when xtext is
AxesInputs ==
  { [xaxis |-> Ticks(m, 1), yaxis |-> Ticks(n, 2),
     xlabels |-> XLabels(lx), ylabels |-> YLabels(ly),
     xtext |-> tx, ytext |-> ty,
     tick |-> <<1, 5>>, xtick |-> (IF tx = "" THEN R(0) ELSE <<1, 2>>),
     ytick |-> R(0)] :
    m \in 0..MaxTicks, n \in 0..MaxTicks,
    lx \in 0..MaxTicks, ly \in 0..MaxTicks,
    tx \in {"", "x"}, ty \in {"", "y"} }

CallGraphAxes ==
  \E a \in AxesInputs :
    /\ Len(objects) < MaxShapes
    /\ Script("graph_axes", Len(a.xaxis), Len(a.yaxis), graph_axes(S0, a, tk86))
    /\ gargs' = a

\* Plot.display: a new canvas, the first frame if animating, the mainloop.
\* An unmapped canvas reports winfo_width() = winfo_height() = 1.
display(p) ==
  IF p.frame_fn # "None"
  THEN next_frame([p EXCEPT !.canvas = <<>>, !.winfo = <<1, 1>>], 0)
  ELSE [p EXCEPT !.canvas = <<>>, !.winfo = <<1, 1>>]

CallDisplay ==
  /\ phase = "caller"
  /\ Commit(display(S0))
  /\ Record("display", 0, 0)
  /\ phase' = (IF err' = "none" THEN "unmapped" ELSE "exited")
  /\ button1' = FALSE /\ armed' = FALSE
  /\ UNCHANGED <<tk86, gargs, nev>>

\* <Configure>, the first event of a mainloop: the window is mapped at size sz
Configure_map ==
  \E sz \in Sizes :
    /\ phase = "unmapped"
    /\ Commit(configure_handler([S0 EXCEPT !.winfo = sz]))
    /\ Record("configure", sz[1], sz[2])
    /\ phase' = "mainloop"
    /\ UNCHANGED <<tk86, gargs, button1, armed, nev>>

\* <Configure>: the window is resized to sz
Configure ==
  \E sz \in Sizes :
    /\ Event("configure", sz[1], sz[2], configure_handler([S0 EXCEPT !.winfo = sz]))
    /\ UNCHANGED <<button1, armed>>

\* a key event: the pointer state is untouched
Key(op, q) == Event(op, 0, 0, q) /\ UNCHANGED <<button1, armed>>

KeyPress_minus == Key("zoom_minus", zoom_minus(S0))
KeyPress_plus == Key("zoom_plus", zoom_plus(S0))
KeyPress_X == Key("zoom_x_plus", zoom_x_plus(S0))
KeyPress_x == Key("zoom_x_minus", zoom_x_minus(S0))
KeyPress_Y == Key("zoom_y_plus", zoom_y_plus(S0))
KeyPress_y == Key("zoom_y_minus", zoom_y_minus(S0))
KeyPress_Up == Key("pan_up", pan_up_handler(S0))
KeyPress_Down == Key("pan_down", pan_down_handler(S0))
KeyPress_Right == Key("pan_right", pan_right_handler(S0))
KeyPress_Left == Key("pan_left", pan_left_handler(S0))
KeyPress_f == Key("frame", frame_handler(S0))
KeyPress_space == Key("play_pause", play_pause_handler(S0))

\* <Button-1>: a press that is not the second of a double click
Button_1 ==
  \E pt \in Points :
    /\ ~button1
    /\ Event("click", pt[1], pt[2], click_handler(S0, pt[1], pt[2]))
    /\ button1' = TRUE
    /\ armed' = FALSE

\* <B1-Motion>
B1_Motion ==
  \E pt \in Points :
    /\ button1
    /\ Event("drag", pt[1], pt[2], drag_handler(S0, pt[1], pt[2]))
    /\ UNCHANGED <<button1, armed>>

\* <ButtonRelease-1>: after a <Button-1> press the next press may be a
\* double click
ButtonRelease_1 ==
  /\ button1
  /\ Event("release", 0, 0, release_handler(S0))
  /\ button1' = FALSE
  /\ armed' = (last.op \in {"click", "drag"})

\* <Double-Button-1>: the second press of a double click; Tk runs this
\* binding, the more specific one, and not click_handler
Double_Button_1 ==
  \E pt \in Points :
    /\ ~button1 /\ armed
    /\ Event("double_click", pt[1], pt[2], double_click_handler(S0, pt[1], pt[2], 1))
    /\ button1' = TRUE
    /\ armed' = FALSE

\* <Double-Button-2>: presses and releases of button 2 have no other binding
Double_Button_2 ==
  \E pt \in Points :
    /\ Event("double_click2", pt[1], pt[2], double_click2_handler(S0, pt[1], pt[2]))
    /\ UNCHANGED <<button1, armed>>

\* canvas.after fires a pending callback: self.next_frame(1)
Timer ==
  \E k \in 1..Len(after) :
    /\ Event("timer", after[k].anim, 0,
             next_frame([S0 EXCEPT !.after =
                           SubSeq(after, 1, k - 1) \o SubSeq(after, k + 1, Len(after))],
                        1))
    /\ UNCHANGED <<button1, armed>>

\* q or Escape: master.quit() ends the mainloop and display() returns
KeyPress_q ==
  /\ phase = "mainloop"
  /\ Commit(S0)
  /\ Record("quit", 0, 0)
  /\ phase' = "caller"
  /\ UNCHANGED <<tk86, gargs, button1, armed, nev>>

\* ------------------------------------------------------- specifications --
\* the events of a specification stop after n dispatches
Within(n) == nev < n

\* every call and every event
Next ==
  \/ CallAdd \/ CallClear \/ CallAnimate \/ CallGraphAxes
  \/ CallDisplay \/ Configure_map \/ Configure
  \/ KeyPress_minus \/ KeyPress_plus
  \/ KeyPress_X \/ KeyPress_x \/ KeyPress_Y \/ KeyPress_y
  \/ KeyPress_Up \/ KeyPress_Down \/ KeyPress_Right \/ KeyPress_Left
  \/ KeyPress_f \/ KeyPress_space
  \/ Button_1 \/ B1_Motion \/ ButtonRelease_1
  \/ Double_Button_1 \/ Double_Button_2
  \/ Timer \/ KeyPress_q

Spec == Init /\ [][Next]_vars

\* the zoom keys on an empty plot
NextZoom ==
  \/ CallDisplay
  \/ Configure_map
  \/ /\ Within(MaxZoomEvents)
     /\ \/ Configure
        \/ KeyPress_minus \/ KeyPress_plus
        \/ KeyPress_X \/ KeyPress_x \/ KeyPress_Y \/ KeyPress_y

SpecZoom == Init /\ [][NextZoom]_vars

\* the pointer on an empty plot
NextClick ==
  \/ CallDisplay
  \/ Configure_map
  \/ /\ Within(MaxClickEvents)
     /\ \/ Button_1 \/ B1_Motion \/ ButtonRelease_1
        \/ Double_Button_1 \/ Double_Button_2

SpecClick == Init /\ [][NextClick]_vars

\* shapes added by the script, drawn and redrawn
InitDraw == Init /\ tk86 /\ width = 600 /\ xoffset = R(5)

NextDraw ==
  \/ CallAdd \/ CallClear
  \/ CallDisplay
  \/ Configure_map
  \/ /\ Within(MaxDrawEvents)
     /\ \/ Configure \/ KeyPress_plus \/ KeyPress_Up

SpecDraw == InitDraw /\ [][NextDraw]_vars

\* shapes added by the script, dragged with the pointer
InitDrag == Init /\ tk86 /\ width = 600 /\ xoffset = R(5)

NextDrag ==
  \/ CallAdd
  \/ CallDisplay
  \/ Configure_map
  \/ /\ Within(MaxDragEvents)
     /\ \/ Button_1 \/ B1_Motion \/ ButtonRelease_1

SpecDrag == InitDrag /\ [][NextDrag]_vars

\* an animation, stepped and played
InitAnim ==
  Init /\ tk86 /\ width = 600 /\ xscale = R(1) /\ xoffset = R(0)

NextAnim ==
  \/ CallAnimate
  \/ CallDisplay
  \/ Configure_map
  \/ KeyPress_q
  \/ /\ Within(MaxAnimEvents)
     /\ \/ KeyPress_f \/ KeyPress_space \/ Timer

SpecAnim == InitAnim /\ [][NextAnim]_vars

\* graph_axes on an empty plot
NextAxes ==
  \/ CallGraphAxes
  \/ CallDisplay
  \/ Configure_map

SpecAxes == Init /\ [][NextAxes]_vars

\* ------------------------------------------------------- claims ----------
\* the user-space x shown at device x = dx under the transform of s
\* (s: a state or a snapshot), and likewise y
UserX(s, dx) == RSub(RDiv(RSub(dx, R(border)), s.xscale), s.xoffset)
UserY(s, dy) == RSub(RDiv(RSub(R(s.height - border), dy), s.yscale), s.yoffset)
\* the device position at which the current transform shows user (ux, uy)
NowX(ux) == DevX(ux, R(border), xscale, xoffset)
NowY(uy) == DevY(uy, R(height - border), yscale, yoffset)
HalfOf(n) == Norm(n, 2)

\* C1: with positive scales and an unchanged window size, zoom_plus
\* immediately followed by zoom_minus restores xscale, yscale, xoffset and
\* yoffset exactly.
C1_ZoomRoundTrip ==
  ( /\ last2.op = "zoom_plus" /\ last.op = "zoom_minus"
    /\ RPos(pre2.xscale) /\ RPos(pre2.yscale)
    /\ pre2.width = width /\ pre2.height = height )
  => /\ xscale = pre2.xscale /\ yscale = pre2.yscale
     /\ xoffset = pre2.xoffset /\ yoffset = pre2.yoffset

C1_Witness ==
  /\ last2.op = "zoom_plus" /\ last.op = "zoom_minus"
  /\ RPos(pre2.xscale) /\ RPos(pre2.yscale)
  /\ pre2.width = width /\ pre2.height = height
  /\ ~RIsZero(xoffset) /\ xscale # yscale
  /\ pre.xoffset # xoffset

\* C2: zoom_plus doubles and zoom_minus halves both scales, and the user
\* point shown at the window centre (width/2, height/2) before the zoom is
\* shown at the window centre after it.
C2_ZoomKeepsCentre ==
  last.op \in {"zoom_plus", "zoom_minus"}
  => /\ xscale = (IF last.op = "zoom_plus" THEN RMul(pre.xscale, R(2))
                                           ELSE RDiv(pre.xscale, R(2)))
     /\ yscale = (IF last.op = "zoom_plus" THEN RMul(pre.yscale, R(2))
                                           ELSE RDiv(pre.yscale, R(2)))
     /\ NowX(UserX(pre, HalfOf(pre.width))) = HalfOf(width)
     /\ NowY(UserY(pre, HalfOf(pre.height))) = HalfOf(height)

C2_Witness ==
  /\ last.op = "zoom_minus" /\ last2.op = "zoom_x_plus"
  /\ width = 401 /\ ~RIsZero(yoffset) /\ xscale # yscale

\* C3: after a double click at device (x, y) the user point that was shown
\* at (x, y) is shown at the window centre, and the scales are doubled for
\* button 1 and halved for button 2.
C3_DoubleClickCentres ==
  last.op \in {"double_click", "double_click2"}
  => /\ xscale = (IF last.op = "double_click" THEN RMul(pre.xscale, R(2))
                                              ELSE RDiv(pre.xscale, R(2)))
     /\ yscale = (IF last.op = "double_click" THEN RMul(pre.yscale, R(2))
                                              ELSE RDiv(pre.yscale, R(2)))
     /\ NowX(UserX(pre, R(last.x))) = HalfOf(width)
     /\ NowY(UserY(pre, R(last.y))) = HalfOf(height)

C3_Witness ==
  /\ last.op = "double_click" /\ last.x = 100 /\ last.y = 450
  /\ width = 401 /\ xscale # yscale

\* C4 as claimed: a button-1 double click at p followed by a button-2 double
\* click at the same p restores the scales and the user point shown at the
\* window centre.
C4_DoubleClickRoundTrip ==
  ( /\ last2.op = "double_click" /\ last.op = "double_click2"
    /\ last2.x = last.x /\ last2.y = last.y )
  => /\ xscale = pre2.xscale /\ yscale = pre2.yscale
     /\ UserX(Self, HalfOf(width)) = UserX(pre2, HalfOf(pre2.width))
     /\ UserY(Self, HalfOf(height)) = UserY(pre2, HalfOf(pre2.height))

\* C4 amended: a button-1 double click at p followed by a button-2 double
\* click at the same p restores the scales, and moves the user point shown
\* at the window centre by 3/2 of the offset of p from the centre, in user
\* units: the centre returns exactly when p is the window centre.
C4_DoubleClickDrift ==
  ( /\ last2.op = "double_click" /\ last.op = "double_click2"
    /\ last2.x = last.x /\ last2.y = last.y )
  => /\ xscale = pre2.xscale /\ yscale = pre2.yscale
     /\ UserX(Self, HalfOf(width)) =
          RAdd(UserX(pre2, HalfOf(pre2.width)),
               RDiv(RMul(<<3, 2>>, RSub(R(last.x), HalfOf(width))), xscale))
     /\ UserY(Self, HalfOf(height)) =
          RSub(UserY(pre2, HalfOf(pre2.height)),
               RDiv(RMul(<<3, 2>>, RSub(R(last.y), HalfOf(height))), yscale))
     /\ ( (UserX(Self, HalfOf(width)) = UserX(pre2, HalfOf(pre2.width))
           /\ UserY(Self, HalfOf(height)) = UserY(pre2, HalfOf(pre2.height)))
          <=> (R(last.x) = HalfOf(width) /\ R(last.y) = HalfOf(height)) )

C4_Witness ==
  /\ last2.op = "double_click" /\ last.op = "double_click2"
  /\ last2.x = last.x /\ last2.y = last.y
  /\ last.x = 100 /\ width = 600

\* the shapes the last draw pass issued draw calls for, in order
Drawn == [k \in 1..Len(canvas) |-> canvas[k].src]

\* C5: after clear() and N add() calls a draw pass issues exactly N draw
\* calls, one per added shape, in the order added, and none for a shape
\* present before the clear().
C5_DrawAddedInOrder ==
  drew => Drawn = added

\* the same for draw passes that return
C5_DrawAddedInOrder_Returned ==
  (drew /\ err = "none") => Drawn = added

\* the device coordinates the transform fields give user (x, y)
ExpX(x) == RAdd(R(border), RMul(RAdd(x, xoffset), xscale))
ExpY(y) == RSub(R(height - border), RMul(RAdd(y, yoffset), yscale))

\* the item of a shape has the shape's points at their device coordinates
ItemMapsShape(it) ==
  LET sh == it.src
      r  == sh.radius
      rs == RMul(sh.radius, sh.squish)
  IN  CASE sh.kind \in {"Line", "Polygon"} ->
             /\ Len(it.pts) = Len(sh.pts)
             /\ \A j \in 1..Len(sh.pts) :
                  it.pts[j] = (IF j % 2 = 1 THEN ExpX(sh.pts[j]) ELSE ExpY(sh.pts[j]))
        [] sh.kind \in {"Circle", "Arc"} ->
             it.pts = <<ExpX(RSub(sh.pts[1], r)), ExpY(RSub(sh.pts[2], rs)),
                        ExpX(RAdd(sh.pts[1], r)), ExpY(RAdd(sh.pts[2], rs))>>
        [] sh.kind = "Mark" ->
             it.pts = <<RSub(ExpX(sh.pts[1]), r), RSub(ExpY(sh.pts[2]), r),
                        RAdd(ExpX(sh.pts[1]), r), RAdd(ExpY(sh.pts[2]), r)>>
        [] OTHER ->
             it.pts = <<ExpX(sh.pts[1]), ExpY(sh.pts[2])>>

\* of two points of one item, the one higher in user space is the one with
\* the smaller device y
ItemFlipsY(it) ==
  LET sh == it.src IN
  CASE sh.kind \in {"Line", "Polygon"} ->
         \A i, j \in 1..Len(sh.pts) :
           (i % 2 = 0 /\ j % 2 = 0 /\ RLess(sh.pts[i], sh.pts[j]))
           => RLess(it.pts[j], it.pts[i])
    [] sh.kind \in {"Circle", "Arc"} ->
         RPos(RMul(sh.radius, sh.squish)) => RLess(it.pts[4], it.pts[2])
    [] OTHER -> TRUE

\* C10: every shape class drawn by Plot.draw puts each of its user points
\* (x, y) at device x = border + (x + xoffset) * xscale and device
\* y = (height - border) - (y + yoffset) * yscale, so that a larger user y
\* is a smaller device y when yscale > 0.
C10_DeviceTransform ==
  \A k \in 1..Len(canvas) :
    /\ ItemMapsShape(canvas[k])
    /\ RPos(yscale) => ItemFlipsY(canvas[k])

C10_Witness ==
  /\ last.op = "zoom_plus" /\ RPos(yscale) /\ Len(canvas) = 2
  /\ canvas[1].src.kind = "Circle" /\ canvas[2].src.kind = "Polygon"
  /\ ~RIsZero(yoffset) /\ height = 300

\* C6: over a frame sequence of length K, each single step (next_frame with
\* play = 0: the F key, and the first frame display() shows) calls the
\* callback once with the next frame value, so K steps call it K times in
\* sequence order; a step after that is a no-op: no callback call, no
\* clearing of the shape list, no redraw, no timer, no error.
C6_SingleSteps ==
  /\ frame_iter.set =>
       calls = [i \in 1..frame_iter.pos |->
                  [fn |-> frame_fn, t |-> frame_iter.frames[i]]]
  /\ (last.op \in {"frame", "display"} /\ pre.frame_iter.set) =>
       IF pre.frame_iter.pos < Len(pre.frame_iter.frames)
       THEN /\ frame_iter.pos = pre.frame_iter.pos + 1
            /\ Len(calls) = pre.ncalls + 1
            /\ calls[Len(calls)].t = frame_iter.frames[frame_iter.pos]
            /\ err = "none"
       ELSE /\ frame_iter = pre.frame_iter
            /\ Len(calls) = pre.ncalls
            /\ objects = pre.objects
            /\ ~drew
            /\ after = pre.after
            /\ playing = pre.playing
            /\ err = "none"

\* the step after the K-th, K = 3, after K single steps from a fresh animate
C6_Witness ==
  /\ last.op = "frame" /\ last2.op = "frame"
  /\ Len(frame_iter.frames) = MaxFrames
  /\ pre.frame_iter.pos = MaxFrames /\ pre2.frame_iter.pos = MaxFrames - 1
  /\ Len(calls) = MaxFrames /\ after = <<>>
  /\ Len(objects) = 1

\* the objects the last call appended
Appended == SubSeq(objects, Len(pre.objects) + 1, Len(objects))
Count(seq, Test(_)) == Cardinality({k \in 1..Len(seq) : Test(seq[k])})
Vertical(sh) == sh.kind = "Line" /\ Len(sh.pts) = 4 /\ sh.pts[1] = sh.pts[3]
Horizontal(sh) == sh.kind = "Line" /\ Len(sh.pts) = 4 /\ sh.pts[2] = sh.pts[4]
IsLabel(sh) == sh.kind = "Label"
IsXLabel(sh) == sh.kind = "Label" /\ sh.text = "tx"
IsYLabel(sh) == sh.kind = "Label" /\ sh.text = "ty"

\* C7: graph_axes given non-empty tick arrays of lengths M and N returns
\* without error, having appended exactly M vertical and N horizontal
\* grid lines.
C7_GridLines ==
  (last.op = "graph_axes" /\ last.x >= 1 /\ last.y >= 1)
  => /\ err = "none"
     /\ Count(Appended, Vertical) = last.x
     /\ Count(Appended, Horizontal) = last.y

\* C8: graph_axes (given tick arrays of two or more ticks) appends no Label
\* when neither xlabels nor ylabels is given, whatever the other arguments,
\* and exactly L labels for an axis whose label array has length L >= 1.
C8_LabelsOnlyFromArrays ==
  (last.op = "graph_axes" /\ last.x >= 2 /\ last.y >= 2)
  => /\ (Len(gargs.xlabels) = 0 /\ Len(gargs.ylabels) = 0)
          => Count(Appended, IsLabel) = 0
     /\ Len(gargs.xlabels) >= 1
          => Count(Appended, IsXLabel) = Len(gargs.xlabels)
     /\ Len(gargs.ylabels) >= 1
          => Count(Appended, IsYLabel) = Len(gargs.ylabels)

\* C9: animate() on a plot that has an animation replaces all of its state:
\* afterwards the plot is not playing and the cursor is at the start of the
\* new sequence with the new callback, every later step calls the new
\* callback with a frame of the new sequence, and no timer scheduled under
\* the previous animation steps the new one.
C9_AnimateReplaces ==
  /\ (last.op = "animate" /\ pre.frame_iter.set) =>
       /\ playing = 0
       /\ frame_iter.pos = 0
  /\ frame_iter.set =>
       \A k \in 1..Len(calls) :
         /\ calls[k].fn = frame_fn
         /\ \E i \in 1..Len(frame_iter.frames) : calls[k].t = frame_iter.frames[i]
  /\ last.op = "timer" => last.x = nanim

\* the callback calls the last call or event made, in order
NewCalls == SubSeq(calls, pre.ncalls + 1, Len(calls))
\* the timers pending before a timer event other than the one that fired
OtherTimers == Len(pre.after) - 1

\* C11: one next_frame(play=1) fired by the timer advances the frame cursor
\* by at most one frame, calls the callback at most once and schedules at
\* most one further timer.
C11_TimerRunsOneStep ==
  last.op = "timer"
  => /\ frame_iter.pos <= pre.frame_iter.pos + 1
     /\ Len(NewCalls) <= 1
     /\ Len(after) <= OtherTimers + 1

\* the same for the timers that fire while the plot is playing
C11_TimerRunsOneStep_Playing ==
  (last.op = "timer" /\ pre.playing = 1)
  => /\ frame_iter.pos <= pre.frame_iter.pos + 1
     /\ Len(NewCalls) <= 1
     /\ Len(after) <= OtherTimers + 1

\* the last event ran a step with play = 1 (a timer, or space on a paused
\* plot) whose callback returned a truthy value
PauseRequested ==
  /\ last.op \in {"timer", "play_pause"}
  /\ Len(NewCalls) >= 1
  /\ FnReturn(NewCalls[1].fn, NewCalls[1].t)

\* C12: when a step run with play = 1 gets a truthy value from its callback,
\* the plot is not playing when the step finishes and the step has
\* scheduled no timer.
C12_CallbackPauses ==
  PauseRequested
  => /\ playing = 0
     /\ Len(after) = (IF last.op = "timer" THEN OtherTimers ELSE Len(pre.after))

\* the same for the steps that start while the playing flag is set: the
\* timers that fire while the plot is playing, and space on a paused plot
C12_CallbackPauses_Playing ==
  (PauseRequested /\ (last.op = "timer" => pre.playing = 1))
  => /\ playing = 0
     /\ Len(after) = (IF last.op = "timer" THEN OtherTimers ELSE Len(pre.after))

\* C13 as claimed: after play_pause_handler returns, the playing flag is the
\* negation of its value before the key event.
C13_SpaceToggles ==
  last.op = "play_pause" => playing = 1 - pre.playing

\* C13 amended: space on a playing plot pauses it; space on a paused plot
\* leaves it playing unless the step it runs gets a truthy value from the
\* callback, and then the plot is paused again when the handler returns.
C13_SpaceTogglesUnlessPaused ==
  last.op = "play_pause"
  => playing = (IF pre.playing = 1 \/ PauseRequested THEN 0 ELSE 1)

C13_Witness ==
  /\ last.op = "play_pause" /\ pre.playing = 0
  /\ PauseRequested /\ playing = 0
  /\ frame_iter.pos = pre.frame_iter.pos + 1

\* C14: whether playing is 0 or 1, frame_handler on a sequence that is not
\* exhausted advances the cursor by exactly one frame, calls the callback
\* once, leaves the playing flag as it was whatever the callback returns,
\* and schedules no timer.
C14_FrameKeySteps ==
  ( /\ last.op = "frame" /\ pre.frame_iter.set
    /\ pre.frame_iter.pos < Len(pre.frame_iter.frames) )
  => /\ frame_iter.pos = pre.frame_iter.pos + 1
     /\ Len(NewCalls) = 1
     /\ NewCalls[1].t = frame_iter.frames[frame_iter.pos]
     /\ playing = pre.playing
     /\ after = pre.after

\* the F key on a playing plot, the callback asking for a pause
C14_Witness ==
  /\ last.op = "frame" /\ pre.playing = 1 /\ playing = 1
  /\ Len(NewCalls) = 1 /\ FnReturn(NewCalls[1].fn, NewCalls[1].t)
  /\ Len(after) = 1

\* C18: at most one next_frame timer is pending at a time.
C18_OneTimerPending ==
  Len(after) <= 1

\* C19: while the plot is paused, nothing but the space and F keys (and the
\* calls animate() and display() of the script) moves the frame cursor or
\* calls the callback: a timer that fires on a paused plot does neither.
C19_PausedStaysPaused ==
  (pre.playing = 0 /\ last.op \notin {"play_pause", "frame", "animate", "display", "init"})
  => /\ frame_iter = pre.frame_iter
     /\ Len(NewCalls) = 0

\* C17: zoom_x_plus and zoom_x_minus double and halve xscale, keep the user
\* x shown at the horizontal window centre there, and leave yscale and
\* yoffset alone; zoom_y_plus and zoom_y_minus do the same for y and leave
\* xscale and xoffset alone.
C17_AxisZoom ==
  /\ last.op \in {"zoom_x_plus", "zoom_x_minus"}
     => /\ xscale = (IF last.op = "zoom_x_plus" THEN RMul(pre.xscale, R(2))
                                                ELSE RDiv(pre.xscale, R(2)))
        /\ NowX(UserX(pre, HalfOf(pre.width))) = HalfOf(width)
        /\ yscale = pre.yscale /\ yoffset = pre.yoffset
  /\ last.op \in {"zoom_y_plus", "zoom_y_minus"}
     => /\ yscale = (IF last.op = "zoom_y_plus" THEN RMul(pre.yscale, R(2))
                                                ELSE RDiv(pre.yscale, R(2)))
        /\ NowY(UserY(pre, HalfOf(pre.height))) = HalfOf(height)
        /\ xscale = pre.xscale /\ xoffset = pre.xoffset

\* a y zoom after an x zoom, on unequal scales and a window that is not square
C17_Witness ==
  /\ last.op = "zoom_y_minus" /\ last2.op = "zoom_x_plus"
  /\ width = 401 /\ height = 300
  /\ xscale # yscale /\ ~RIsZero(xoffset) /\ ~RIsZero(yoffset)
  /\ xscale = RMul(pre2.xscale, R(2)) /\ yscale = RDiv(pre2.yscale, R(2))

\* a Line or Polygon whose coordinate sequence has odd length
OddLength(sh) == sh.kind \in {"Line", "Polygon"} /\ Len(sh.pts) % 2 = 1

\* C16: a draw pass over a shape list that holds a Line or Polygon of odd
\* coordinate count returns without raising and issues a draw call for
\* every shape, the odd one included.
C16_OddLengthDrawn ==
  (drew /\ \E k \in 1..Len(objects) : OddLength(objects[k]))
  => /\ err = "none"
     /\ Drawn = objects

\* C20: a pointer-up with no drag motion since the press before it (a
\* <Button-1> press, or the second press of a double click, which does not
\* run click_handler) leaves xoffset and yoffset unchanged.
C20_DeltaCommittedOnce ==
  (last.op = "release" /\ last2.op \in {"click", "double_click"})
  => /\ xoffset = pre.xoffset
     /\ yoffset = pre.yoffset

\* the same for the pointer-up after a <Button-1> press
C20_DeltaCommittedOnce_Click ==
  (last.op = "release" /\ last2.op = "click")
  => /\ xoffset = pre.xoffset
     /\ yoffset = pre.yoffset

\* the device coordinates of the item of shape sh under the transform of the
\* snapshot s
DevicePts(sh, s) ==
  Shape_draw(sh, R(border), R(s.height - border),
             s.xscale, s.yscale, s.xoffset, s.yoffset).item.pts
\* coordinates moved by (dx, dy)
Moved(pts, dx, dy) ==
  [j \in 1..Len(pts) |-> RAdd(pts[j], R(IF j % 2 = 1 THEN dx ELSE dy))]

\* C15: pointer-down and drag events leave xscale, yscale, xoffset and
\* yoffset alone; the pointer-up after them commits xoffset += dx / xscale
\* and yoffset -= dy / yscale for the cumulative drag delta (dx, dy), and
\* its redraw puts every shape point at its device position before the
\* pointer-down plus (dx, dy), which is where the canvas move had put it.
C15_ReleaseCommitsDrag ==
  /\ last.op \in {"click", "drag"}
     => /\ xscale = pre.xscale /\ yscale = pre.yscale
        /\ xoffset = pre.xoffset /\ yoffset = pre.yoffset
  /\ last.op = "release"
     => /\ xscale = pre.xscale /\ yscale = pre.yscale
        /\ xoffset = RAdd(pre.xoffset, RDiv(R(delta_x), xscale))
        /\ yoffset = RSub(pre.yoffset, RDiv(R(delta_y), yscale))
        /\ \A k \in 1..Len(canvas) :
             canvas[k].pts = Moved(DevicePts(canvas[k].src, pre), delta_x, delta_y)
        /\ canvas = pre.canvas

\* the pointer-up after a drag by (-200, 150) of a Circle and a Mark
C15_Witness ==
  /\ last.op = "release" /\ last2.op = "drag"
  /\ delta_x = -200 /\ delta_y = 150
  /\ Len(canvas) = 2
  /\ canvas[1].src.kind = "Circle" /\ canvas[2].src.kind = "Mark"
  /\ xscale # yscale /\ xoffset # pre.xoffset /\ yoffset # pre.yoffset

====
